---- MODULE Spec2Model ----
(***************************************************************************)
(* A model of the LSIF query resolver (Definitions, References, Hover) and *)
(* of its composite pagination cursor (readCursor, makeCursor).            *)
(*                                                                         *)
(* Go strings are modelled as sequences of bytes (0..255); a *string is a  *)
(* sequence of length 0 (nil) or 1 (a pointer to the string); a            *)
(* map[int64]string is a function whose domain is its key set (a nil map   *)
(* reads as the empty map, as in Go).                                      *)
(***************************************************************************)
EXTENDS Integers, Sequences, FiniteSets, TLC

(***************************************************************************)
(* Bytes and string literals                                               *)
(***************************************************************************)

\* The printable ASCII characters, in code order starting at code 32 (the
\* grave accent, code 96, has no string literal and is named instead).
AsciiPrintable ==
  <<" ", "!", "\"", "#", "$", "%", "&", "'", "(", ")", "*", "+", ",", "-", ".", "/",
    "0", "1", "2", "3", "4", "5", "6", "7", "8", "9", ":", ";", "<", "=", ">", "?",
    "@", "A", "B", "C", "D", "E", "F", "G", "H", "I", "J", "K", "L", "M", "N", "O",
    "P", "Q", "R", "S", "T", "U", "V", "W", "X", "Y", "Z", "[", "\\", "]", "^", "_",
    "grave", "a", "b", "c", "d", "e", "f", "g", "h", "i", "j", "k", "l", "m", "n", "o",
    "p", "q", "r", "s", "t", "u", "v", "w", "x", "y", "z", "{", "|", "}", "~">>

\* The byte of a printable ASCII character.
Ord(c) == 31 + (CHOOSE i \in 1..Len(AsciiPrintable) : AsciiPrintable[i] = c)

\* The byte string of a sequence of printable ASCII characters.
RECURSIVE StrFrom(_, _)
StrFrom(cs, i) == IF i > Len(cs) THEN <<>> ELSE <<Ord(cs[i])>> \o StrFrom(cs, i + 1)

Str(cs) == StrFrom(cs, 1)

\* The ASCII codes of the characters the codec names.
ChAmp == 38
ChPlus == 43
ChComma == 44
ChMinus == 45
ChDot == 46
ChSlash == 47
Ch0 == 48
Ch9 == 57
ChColon == 58
ChLt == 60
ChEq == 61
ChGt == 62
ChUpperA == 65
ChUpperE == 69
ChUpperF == 70
ChUpperZ == 90
ChLBracket == 91
ChQuote == 34
ChBackslash == 92
ChRBracket == 93
ChLowerA == 97
ChLowerB == 98
ChLowerE == 101
ChLowerF == 102
ChLowerN == 110
ChLowerR == 114
ChLowerT == 116
ChLowerU == 117
ChLowerZ == 122
ChLBrace == 123
ChRBrace == 125

\* The escapes json.Marshal writes and the literals the scanner looks for:
\* \n \r \t \u00 \ufffd \u202, null true false.
EscN == <<92, 110>>
EscR == <<92, 114>>
EscT == <<92, 116>>
EscU00 == <<92, 117, 48, 48>>
EscUfffd == <<92, 117, 102, 102, 102, 100>>
EscU202 == <<92, 117, 50, 48, 50>>
LitNull == <<110, 117, 108, 108>>
LitTrue == <<116, 114, 117, 101>>
LitFalse == <<102, 97, 108, 115, 101>>


\* Lexicographic order on byte strings (Go's < on strings), from byte i on.
RECURSIVE StrLessFrom(_, _, _)
StrLessFrom(a, b, i) ==
  IF i > Len(b) THEN FALSE
  ELSE IF i > Len(a) THEN TRUE
  ELSE IF a[i] # b[i] THEN a[i] < b[i]
  ELSE StrLessFrom(a, b, i + 1)

StrLess(a, b) == StrLessFrom(a, b, 1)

\* *string: nil, and a pointer to s.
Nil == <<>>
Ptr(s) == <<s>>

\* The error values of the codec; NoErr is Go's nil error.
NoErr == "nil"
CorruptInputError == "base64.CorruptInputError"
SyntaxError == "json.SyntaxError"
UnmarshalTypeError == "json.UnmarshalTypeError"

\* A map[int64]string with no entries (also the nil map).
EmptyMap == [k \in {} |-> <<>>]

\* A local variable: Body applied to the value of e, which is computed once
\* (x := e; Body(x)).
With(e, Body(_)) == CHOOSE r \in {Body(x) : x \in {e}} : TRUE

(***************************************************************************)
(* encoding/base64, StdEncoding (padded, non-strict)                        *)
(***************************************************************************)

StdPadding == ChEq

\* The character of a 6-bit value (the encoding's alphabet: A-Z, a-z, 0-9,
\* "+", "/").
B64Char(v) ==
  IF v < 26 THEN ChUpperA + v
  ELSE IF v < 52 THEN ChLowerA + (v - 26)
  ELSE IF v < 62 THEN Ch0 + (v - 52)
  ELSE IF v = 62 THEN ChPlus
  ELSE ChSlash

\* The 6-bit value of a character (the encoding's decodeMap), -1 when it is
\* not in the alphabet.
B64Val(c) ==
  IF c >= ChUpperA /\ c <= ChUpperZ THEN c - ChUpperA
  ELSE IF c >= ChLowerA /\ c <= ChLowerZ THEN c - ChLowerA + 26
  ELSE IF c >= Ch0 /\ c <= Ch9 THEN c - Ch0 + 52
  ELSE IF c = ChPlus THEN 62
  ELSE IF c = ChSlash THEN 63
  ELSE -1

\* Encoding.Encode from byte i of src on: 3 bytes to 4 characters, the last
\* quantum padded with "=".
RECURSIVE EncodeFrom(_, _)
EncodeFrom(src, i) ==
  IF i > Len(src) THEN <<>>
  ELSE IF i = Len(src) THEN
    LET val == src[i] * 65536
    IN <<B64Char(val \div 262144), B64Char((val \div 4096) % 64), StdPadding, StdPadding>>
  ELSE IF i + 1 = Len(src) THEN
    LET val == src[i] * 65536 + src[i + 1] * 256
    IN <<B64Char(val \div 262144), B64Char((val \div 4096) % 64),
         B64Char((val \div 64) % 64), StdPadding>>
  ELSE
    LET val == src[i] * 65536 + src[i + 1] * 256 + src[i + 2]
    IN <<B64Char(val \div 262144), B64Char((val \div 4096) % 64),
         B64Char((val \div 64) % 64), B64Char(val % 64)>>
       \o EncodeFrom(src, i + 3)

\* base64.StdEncoding.EncodeToString.
EncodeToString(src) == EncodeFrom(src, 1)

\* The bytes of the characters i..n of t, all of the alphabet: 4 characters
\* to 3 bytes, the last quantum may hold 2 or 3 characters.
RECURSIVE DecodeQuanta(_, _, _)
DecodeQuanta(t, i, n) ==
  IF i + 1 > n THEN <<>>
  ELSE IF i + 1 = n THEN
    LET val == B64Val(t[i]) * 262144 + B64Val(t[i + 1]) * 4096
    IN <<val \div 65536>>
  ELSE IF i + 2 = n THEN
    LET val == B64Val(t[i]) * 262144 + B64Val(t[i + 1]) * 4096 + B64Val(t[i + 2]) * 64
    IN <<val \div 65536, (val \div 256) % 256>>
  ELSE
    LET val == B64Val(t[i]) * 262144 + B64Val(t[i + 1]) * 4096 + B64Val(t[i + 2]) * 64
               + B64Val(t[i + 3])
    IN <<val \div 65536, (val \div 256) % 256, val % 256>>
       \o DecodeQuanta(t, i + 4, n)

\* base64.StdEncoding.DecodeString: "\r" and "\n" are skipped; the rest is
\* quanta of 4 characters of the alphabet, the last one ending with at most
\* two "="; anything else is a CorruptInputError.
DecodeString(s) ==
  With(SelectSeq(s, LAMBDA c : c \notin {10, 13}), LAMBDA t :
    LET n == Len(t)
        npad == IF n >= 1 /\ t[n] = StdPadding
                THEN (IF n >= 2 /\ t[n - 1] = StdPadding THEN 2 ELSE 1)
                ELSE 0
    IN IF n % 4 # 0 \/ (\E i \in 1..(n - npad) : B64Val(t[i]) < 0)
       THEN [bytes |-> <<>>, err |-> CorruptInputError]
       ELSE [bytes |-> DecodeQuanta(t, 1, n - npad), err |-> NoErr])

(***************************************************************************)
(* unicode/utf8 and strconv                                                *)
(***************************************************************************)

\* A continuation byte of UTF-8.
IsCont(b) == b >= 128 /\ b <= 191

\* utf8.DecodeRune at s[i]: the length of the valid encoding that starts
\* there (1 to 4), or 0 where the bytes are not valid UTF-8 (the decoder then
\* yields RuneError with width 1).
RuneLen(s, i) ==
  LET b0 == s[i]
      b(k) == IF i + k <= Len(s) THEN s[i + k] ELSE 0
  IN IF b0 < 128 THEN 1
     ELSE IF b0 >= 194 /\ b0 <= 223 THEN (IF IsCont(b(1)) THEN 2 ELSE 0)
     ELSE IF b0 >= 224 /\ b0 <= 239 THEN
       (IF /\ b(1) >= (IF b0 = 224 THEN 160 ELSE 128)
           /\ b(1) <= (IF b0 = 237 THEN 159 ELSE 191)
           /\ IsCont(b(2))
        THEN 3 ELSE 0)
     ELSE IF b0 >= 240 /\ b0 <= 244 THEN
       (IF /\ b(1) >= (IF b0 = 240 THEN 144 ELSE 128)
           /\ b(1) <= (IF b0 = 244 THEN 143 ELSE 191)
           /\ IsCont(b(2)) /\ IsCont(b(3))
        THEN 4 ELSE 0)
     ELSE 0

\* utf8.EncodeRune, of a rune that is no surrogate.
EncodeRune(r) ==
  IF r < 128 THEN <<r>>
  ELSE IF r < 2048 THEN <<192 + (r \div 64), 128 + (r % 64)>>
  ELSE IF r < 65536 THEN <<224 + (r \div 4096), 128 + ((r \div 64) % 64), 128 + (r % 64)>>
  ELSE <<240 + (r \div 262144), 128 + ((r \div 4096) % 64),
         128 + ((r \div 64) % 64), 128 + (r % 64)>>

\* U+FFFD, the replacement character.
ReplacementChar == 15 * 4096 + 15 * 256 + 15 * 16 + 13

\* The lower-case hexadecimal digit of a value below 16.
HexDigit(d) == IF d < 10 THEN Ch0 + d ELSE ChLowerA + (d - 10)

\* The value of a hexadecimal digit (either case), -1 for any other byte.
HexVal(c) ==
  IF c >= Ch0 /\ c <= Ch9 THEN c - Ch0
  ELSE IF c >= ChLowerA /\ c <= ChLowerF THEN c - ChLowerA + 10
  ELSE IF c >= ChUpperA /\ c <= ChUpperF THEN c - ChUpperA + 10
  ELSE -1

IsDigit(c) == c >= Ch0 /\ c <= Ch9

\* strconv.FormatInt(n, 10).
RECURSIVE FormatUint(_)
FormatUint(n) ==
  IF n < 10 THEN <<Ch0 + n>>
  ELSE FormatUint(n \div 10) \o <<Ch0 + (n % 10)>>

FormatInt(n) == IF n < 0 THEN <<ChMinus>> \o FormatUint(-n) ELSE FormatUint(n)

\* The value of the decimal digits lo..hi of s.
RECURSIVE DigitsVal(_, _, _)
DigitsVal(s, lo, hi) ==
  IF hi < lo THEN 0
  ELSE 10 * DigitsVal(s, lo, hi - 1) + (s[hi] - Ch0)

\* strconv.ParseInt(s, 10, 64): an optional sign, then one or more digits.
\* The model's integers are narrower than int64: keys of more than nine
\* digits are outside the inputs it draws, and are refused like the
\* out-of-range keys of the code.
ParseInt(s) ==
  LET signed == Len(s) >= 1 /\ s[1] \in {ChPlus, ChMinus}
      lo == IF signed THEN 2 ELSE 1
      neg == signed /\ s[1] = ChMinus
  IN IF lo > Len(s) \/ (\E i \in lo..Len(s) : ~IsDigit(s[i])) \/ Len(s) - lo + 1 > 9
     THEN [ok |-> FALSE, n |-> 0]
     ELSE [ok |-> TRUE,
           n |-> IF neg THEN -DigitsVal(s, lo, Len(s)) ELSE DigitsVal(s, lo, Len(s))]

(***************************************************************************)
(* encoding/json, Marshal of a map[int64]string                            *)
(***************************************************************************)

\* The bytes below 128 that json.Marshal copies into a string unescaped
\* (htmlSafeSet): all from the space on but the quote, the backslash and
\* the three characters escaped for HTML.
HtmlSafe(b) ==
  b >= 32 /\ b < 128 /\ b \notin {ChQuote, ChBackslash, ChLt, ChGt, ChAmp}

\* The escape json.Marshal writes for a byte below 128 that is not HtmlSafe.
EscapeByte(b) ==
  IF b \in {ChBackslash, ChQuote} THEN <<ChBackslash, b>>
  ELSE IF b = 10 THEN EscN
  ELSE IF b = 13 THEN EscR
  ELSE IF b = 9 THEN EscT
  ELSE EscU00 \o <<HexDigit(b \div 16), HexDigit(b % 16)>>

\* The body of encodeState.string from byte i on: safe bytes are copied, the
\* others escaped, a byte that is not valid UTF-8 becomes U+FFFD, and U+2028
\* and U+2029 are escaped.
RECURSIVE EscapeFrom(_, _)
EscapeFrom(s, i) ==
  IF i > Len(s) THEN <<>>
  ELSE IF s[i] < 128 THEN
    (IF HtmlSafe(s[i]) THEN <<s[i]>> ELSE EscapeByte(s[i])) \o EscapeFrom(s, i + 1)
  ELSE
    LET size == RuneLen(s, i)
    IN IF size = 0 THEN EscUfffd \o EscapeFrom(s, i + 1)
       ELSE IF size = 3 /\ s[i] = 226 /\ s[i + 1] = 128 /\ s[i + 2] \in {168, 169}
       THEN EscU202 \o <<HexDigit(s[i + 2] % 16)>>
            \o EscapeFrom(s, i + 3)
       ELSE SubSeq(s, i, i + size - 1) \o EscapeFrom(s, i + size)

\* encodeState.string: a Go string as a JSON string literal.
EncodeString(s) == <<ChQuote>> \o EscapeFrom(s, 1) \o <<ChQuote>>


\* The keys of a map in the order json.Marshal writes them: sorted as the
\* strings they are written as.
RECURSIVE SortedKeys(_)
SortedKeys(ks) ==
  IF ks = {} THEN <<>>
  ELSE With(CHOOSE x \in ks : \A y \in ks \ {x} : StrLess(FormatInt(x), FormatInt(y)),
            LAMBDA k : <<k>> \o SortedKeys(ks \ {k}))

\* The members of the object json.Marshal writes for a map, from the i-th
\* key of ks on, separated by commas.
RECURSIVE Members(_, _, _)
Members(cursors, ks, i) ==
  IF i > Len(ks) THEN <<>>
  ELSE (IF i > 1 THEN <<ChComma>> ELSE <<>>)
       \o EncodeString(FormatInt(ks[i])) \o <<ChColon>> \o EncodeString(cursors[ks[i]])
       \o Members(cursors, ks, i + 1)

\* json.Marshal(cursors), cursors a map[int64]string: an object whose member
\* names are the keys in decimal. It has no failing case.
Marshal(cursors) ==
  With(SortedKeys(DOMAIN cursors), LAMBDA ks :
    <<ChLBrace>> \o Members(cursors, ks, 1) \o <<ChRBrace>>)

(***************************************************************************)
(* encoding/json, Unmarshal into a map[int64]string                        *)
(***************************************************************************)

\* The result of a scan that found no valid JSON.
ScanFail == [ok |-> FALSE, next |-> 0, v |-> [t |-> "invalid"]]

IsSpace(c) == c \in {32, 9, 13, 10}

\* The first index from i on that holds no JSON white space.
RECURSIVE SkipSpace(_, _)
SkipSpace(s, i) == IF i <= Len(s) /\ IsSpace(s[i]) THEN SkipSpace(s, i + 1) ELSE i

\* The first index from i on that holds no digit.
RECURSIVE SkipDigits(_, _)
SkipDigits(s, i) == IF i <= Len(s) /\ IsDigit(s[i]) THEN SkipDigits(s, i + 1) ELSE i

\* Whether the bytes of lit stand at s[i].
HasPrefixAt(s, i, lit) ==
  i + Len(lit) - 1 <= Len(s) /\ SubSeq(s, i, i + Len(lit) - 1) = lit

\* getu4: the value of the escape \uXXXX at s[i], or -1.
Getu4(s, i) ==
  IF /\ i + 5 <= Len(s)
     /\ s[i] = ChBackslash /\ s[i + 1] = ChLowerU
     /\ \A k \in 2..5 : HexVal(s[i + k]) >= 0
  THEN HexVal(s[i + 2]) * 4096 + HexVal(s[i + 3]) * 256 + HexVal(s[i + 4]) * 16
       + HexVal(s[i + 5])
  ELSE -1

\* The byte a one-letter escape stands for, -1 when the letter is none.
UnescapeLetter(c) ==
  IF c \in {ChQuote, ChBackslash, ChSlash} THEN c
  ELSE IF c = ChLowerB THEN 8
  ELSE IF c = ChLowerF THEN 12
  ELSE IF c = ChLowerN THEN 10
  ELSE IF c = ChLowerR THEN 13
  ELSE IF c = ChLowerT THEN 9
  ELSE -1


\* One step of unquote at s[i]: the number of bytes read (0 when they are
\* invalid) and the bytes they stand for. An escape stands for its character
\* (a surrogate pair for one rune, a lone surrogate for U+FFFD), bytes that
\* are not valid UTF-8 become U+FFFD.
UnquoteStep(s, i) ==
  IF s[i] = ChBackslash THEN
    IF i + 1 > Len(s) THEN [n |-> 0, out |-> <<>>]
    ELSE IF s[i + 1] = ChLowerU THEN
      LET rr == Getu4(s, i)
          rr1 == Getu4(s, i + 6)
      IN IF rr < 0 THEN [n |-> 0, out |-> <<>>]
         ELSE IF rr >= 55296 /\ rr < 57344 THEN
           IF rr < 56320 /\ rr1 >= 56320 /\ rr1 < 57344
           THEN [n |-> 12,
                 out |-> EncodeRune(65536 + (rr - 55296) * 1024 + (rr1 - 56320))]
           ELSE [n |-> 6, out |-> EncodeRune(ReplacementChar)]
         ELSE [n |-> 6, out |-> EncodeRune(rr)]
    ELSE IF UnescapeLetter(s[i + 1]) >= 0
         THEN [n |-> 2, out |-> <<UnescapeLetter(s[i + 1])>>]
         ELSE [n |-> 0, out |-> <<>>]
  ELSE IF s[i] < 128 THEN [n |-> 1, out |-> <<s[i]>>]
  ELSE IF RuneLen(s, i) = 0 THEN [n |-> 1, out |-> EncodeRune(ReplacementChar)]
  ELSE [n |-> RuneLen(s, i), out |-> SubSeq(s, i, i + RuneLen(s, i) - 1)]

\* The scanner's string state and unquote, from i (after the opening quote)
\* to the closing quote; control bytes and unknown escapes are invalid.
RECURSIVE UnquoteFrom(_, _)
UnquoteFrom(s, i) ==
  IF i > Len(s) THEN ScanFail
  ELSE IF s[i] = ChQuote THEN [ok |-> TRUE, next |-> i + 1, v |-> [t |-> "str", s |-> <<>>]]
  ELSE IF s[i] < 32 THEN ScanFail
  ELSE With(UnquoteStep(s, i), LAMBDA step :
    IF step.n = 0 THEN ScanFail
    ELSE With(UnquoteFrom(s, i + step.n), LAMBDA rest :
      IF rest.ok
      THEN [ok |-> TRUE, next |-> rest.next, v |-> [t |-> "str", s |-> step.out \o rest.v.s]]
      ELSE ScanFail))

\* The scanner's number states from i: the index after the number, or 0.
ScanNumber(s, i) ==
  LET a == IF s[i] = ChMinus THEN i + 1 ELSE i
      b == IF a <= Len(s) /\ s[a] = Ch0 THEN a + 1
           ELSE IF a <= Len(s) /\ IsDigit(s[a]) THEN SkipDigits(s, a)
           ELSE 0
      c == IF b # 0 /\ b <= Len(s) /\ s[b] = ChDot
           THEN (IF SkipDigits(s, b + 1) > b + 1 THEN SkipDigits(s, b + 1) ELSE 0)
           ELSE b
      e == IF c # 0 /\ c <= Len(s) /\ s[c] \in {ChLowerE, ChUpperE}
           THEN LET d == IF c + 1 <= Len(s) /\ s[c + 1] \in {ChPlus, ChMinus}
                         THEN c + 2 ELSE c + 1
                IN IF SkipDigits(s, d) > d THEN SkipDigits(s, d) ELSE 0
           ELSE c
  IN e

\* The scanner over one JSON value from i (white space skipped first): the
\* index after it and the value read. Only what the decoder into a
\* map[int64]string looks at is kept: the kind of a value, the characters of
\* a string, the members of an object.
RECURSIVE ParseValue(_, _)
RECURSIVE ParseMembers(_, _)
RECURSIVE ParseElements(_, _)
ParseValue(s, i) ==
  With(SkipSpace(s, i), LAMBDA j :
    IF j > Len(s) THEN ScanFail
    ELSE IF s[j] = ChLBrace THEN
      With(SkipSpace(s, j + 1), LAMBDA k :
        IF k <= Len(s) /\ s[k] = ChRBrace
        THEN [ok |-> TRUE, next |-> k + 1, v |-> [t |-> "obj", members |-> <<>>]]
        ELSE ParseMembers(s, k))
    ELSE IF s[j] = ChLBracket THEN
      With(SkipSpace(s, j + 1), LAMBDA k :
        IF k <= Len(s) /\ s[k] = ChRBracket
        THEN [ok |-> TRUE, next |-> k + 1, v |-> [t |-> "arr"]]
        ELSE ParseElements(s, k))
    ELSE IF s[j] = ChQuote THEN UnquoteFrom(s, j + 1)
    ELSE IF s[j] = ChMinus \/ IsDigit(s[j]) THEN
      With(ScanNumber(s, j), LAMBDA e :
        IF e = 0 THEN ScanFail ELSE [ok |-> TRUE, next |-> e, v |-> [t |-> "num"]])
    ELSE IF HasPrefixAt(s, j, LitNull)
      THEN [ok |-> TRUE, next |-> j + 4, v |-> [t |-> "null"]]
    ELSE IF HasPrefixAt(s, j, LitTrue)
      THEN [ok |-> TRUE, next |-> j + 4, v |-> [t |-> "bool"]]
    ELSE IF HasPrefixAt(s, j, LitFalse)
      THEN [ok |-> TRUE, next |-> j + 5, v |-> [t |-> "bool"]]
    ELSE ScanFail)

\* The members of an object from i, the first member's name expected there.
ParseMembers(s, i) ==
  IF i > Len(s) \/ s[i] # ChQuote THEN ScanFail
  ELSE With(UnquoteFrom(s, i + 1), LAMBDA key :
    IF ~key.ok THEN ScanFail
    ELSE With(SkipSpace(s, key.next), LAMBDA colon :
      IF colon > Len(s) \/ s[colon] # ChColon THEN ScanFail
      ELSE With(ParseValue(s, colon + 1), LAMBDA val :
        IF ~val.ok THEN ScanFail
        ELSE With(SkipSpace(s, val.next), LAMBDA after :
          IF after > Len(s) THEN ScanFail
          ELSE IF s[after] = ChRBrace
            THEN [ok |-> TRUE, next |-> after + 1,
                  v |-> [t |-> "obj", members |-> <<[k |-> key.v.s, v |-> val.v]>>]]
          ELSE IF s[after] = ChComma THEN
            With(ParseMembers(s, SkipSpace(s, after + 1)), LAMBDA rest :
              IF rest.ok
              THEN [ok |-> TRUE, next |-> rest.next,
                    v |-> [t |-> "obj",
                           members |-> <<[k |-> key.v.s, v |-> val.v]>> \o rest.v.members]]
              ELSE ScanFail)
          ELSE ScanFail))))

\* The elements of an array from i, the first element expected there.
ParseElements(s, i) ==
  With(ParseValue(s, i), LAMBDA val :
    IF ~val.ok THEN ScanFail
    ELSE With(SkipSpace(s, val.next), LAMBDA after :
      IF after > Len(s) THEN ScanFail
      ELSE IF s[after] = ChRBracket
        THEN [ok |-> TRUE, next |-> after + 1, v |-> [t |-> "arr"]]
      ELSE IF s[after] = ChComma THEN ParseElements(s, after + 1)
      ELSE ScanFail))

\* decodeState.object into a map[int64]string, one member m after the state
\* acc: a string value is stored, null leaves the element the empty string,
\* any other value is a type error (the element stays empty); the name is
\* parsed as an int64 and the member is dropped with a type error when it is
\* none. The decoder goes on after a type error and reports the first one.
DecodeMember(acc, m) ==
  LET elem == IF m.v.t = "str" THEN m.v.s ELSE <<>>
      elemOk == m.v.t \in {"str", "null"}
      key == ParseInt(m.k)
  IN [cursors |-> IF key.ok THEN (key.n :> elem) @@ acc.cursors ELSE acc.cursors,
      err |-> IF acc.err # NoErr THEN acc.err
              ELSE IF elemOk /\ key.ok THEN NoErr
              ELSE UnmarshalTypeError]

\* decodeState.object over the members of ms from the i-th on.
RECURSIVE DecodeMembers(_, _, _)
DecodeMembers(ms, i, acc) ==
  IF i > Len(ms) THEN acc
  ELSE With(DecodeMember(acc, ms[i]), LAMBDA a : DecodeMembers(ms, i + 1, a))

\* json.Unmarshal(data, &cursors), cursors a nil map[int64]string: the whole
\* input is checked to be one JSON value first; null leaves the map nil, an
\* object fills it, any other value is a type error. cursors is the map as
\* Unmarshal leaves it, also when it fails.
Unmarshal(data) ==
  With(ParseValue(data, 1), LAMBDA r :
    IF ~r.ok \/ SkipSpace(data, r.next) <= Len(data)
    THEN [cursors |-> EmptyMap, err |-> SyntaxError]
    ELSE IF r.v.t = "null" THEN [cursors |-> EmptyMap, err |-> NoErr]
    ELSE IF r.v.t = "obj"
      THEN DecodeMembers(r.v.members, 1, [cursors |-> EmptyMap, err |-> NoErr])
    ELSE [cursors |-> EmptyMap, err |-> UnmarshalTypeError])

(***************************************************************************)
(* readCursor and makeCursor                                               *)
(***************************************************************************)

\* readCursor(after): a nil cursor is no map and no error; otherwise the
\* base64 text is decoded, then the JSON in it, and either failure returns
\* the error with no map.
readCursor(after) ==
  IF after = Nil THEN [cursors |-> EmptyMap, err |-> NoErr]
  ELSE With(DecodeString(after[1]), LAMBDA decoded :
    IF decoded.err # NoErr THEN [cursors |-> EmptyMap, err |-> decoded.err]
    ELSE With(Unmarshal(decoded.bytes), LAMBDA u :
      IF u.err # NoErr THEN [cursors |-> EmptyMap, err |-> u.err]
      ELSE [cursors |-> u.cursors, err |-> NoErr]))

\* A faulty makeCursor: the map is encoded whether or not it has entries.
makeCursorAlwaysEncodes(cursors) ==
  With(Marshal(cursors), LAMBDA data :
    [cursor |-> EncodeToString(data), err |-> NoErr])

\* makeCursor(cursors): the empty string for a map with no entries, else
\* the base64 text of the map's JSON. json.Marshal has no failing case on a
\* map[int64]string, so the error is always nil.
makeCursor(cursors) ==
  IF Cardinality(DOMAIN cursors) = 0 THEN [cursor |-> <<>>, err |-> NoErr]
  ELSE With(Marshal(cursors), LAMBDA data :
    [cursor |-> EncodeToString(data), err |-> NoErr])

(***************************************************************************)
(* The resolver: state                                                     *)
(***************************************************************************)

\* Bounds of the model.
MaxUploads == 2
MaxPages == 2

\* The upload IDs candidate lists are drawn from.
UploadIDs == {1, 2, 10}

\* r.uploads: the candidate lists, sequences of distinct upload IDs.
UploadLists ==
  UNION {{u \in [1..n -> UploadIDs] : \A a, b \in 1..n : a # b => u[a] # u[b]}
         : n \in 0..MaxUploads}

\* What the upload backend may answer: the continuation tokens are URLs (one
\* with a character json.Marshal escapes), the empty token ends an upload's
\* pagination.
Tokens == {Str(<<"/", "2">>), Str(<<"?", "a", "&", "b">>)}
LocationLists == {<<>>, <<"L1">>, <<"L2", "L1">>}
ReferenceLists == {<<>>, <<"L1", "L2">>}
BackendErrs == {"E1", "E2"}

\* The error of a call whose context is cancelled (ctx.Err()).
Canceled == "context.Canceled"
HoverTexts == {<<>>, Str(<<"d", "o", "c">>), Str(<<"x">>)}
Ranges == {"R1", "R2"}

\* args.First of a References request: no limit, or a limit.
Firsts == {Nil, Ptr(2)}

\* Cursors a client may send that no page handed out: text that is not
\* base64, and the cursor of a map holding an upload that is no candidate.
ClientCursors ==
  {Str(<<"!", "!", "!", "!">>),
   EncodeToString(Str(<<"{", "\"", "7", "\"", ":", "\"", "/", "2", "\"", "}">>))}

VARIABLES
  uploads,       \* r.uploads, the IDs of the candidate uploads in order
  op,            \* the operation of the current (or last) request
  pc,            \* "idle", "loop" (before an iteration), "call" (a backend
                 \* call in flight), "done" (the request has returned)
  i,             \* the index in uploads of the iteration
  args,          \* the arguments of the request that matter: After, First
  nextURLs,      \* References: the decoded incoming cursor
  newCursors,    \* References: the outgoing cursor map
  allLocations,  \* Definitions, References: the locations collected
  calls,         \* the opts of the backend calls of this request, in order
  resps,         \* what the backend answered to them, in order
  result,        \* what the request returned
  session,       \* the pagination session of the caller: the pages served,
                 \* the tokens of the last page, the uploads that ended
  codec,         \* a direct use of makeCursor and readCursor: the inputs
                 \* and what each returned
  ctx,           \* the context of the request: "live", or "canceled" once
                 \* the caller cancelled it or its timeout fired
  backend,       \* what the upload backend serves: any answer, or for each
                 \* upload a chain of pages, with the pages served so far
  db             \* the campaigns database and the last calls made on it

vars == <<uploads, op, pc, i, args, nextURLs, newCursors, allLocations, calls, resps,
          result, session, codec, ctx, backend, db>>

NoResult ==
  [kind |-> "none", locations |-> <<>>, endCursor |-> <<>>, text |-> <<>>,
   lspRange |-> "", err |-> NoErr]

\* return nil, err
ErrorResult(err) == [NoResult EXCEPT !.kind = "error", !.err = err]

\* return &locationConnectionResolver{locations, endCursor}, nil
LocationsResult(locations, endCursor) ==
  [NoResult EXCEPT !.kind = "locations", !.locations = locations, !.endCursor = endCursor]

\* return &hoverResolver{text, lspRange}, nil
HoverResult(text, lspRange) ==
  [NoResult EXCEPT !.kind = "hover", !.text = text, !.lspRange = lspRange]

\* return nil, nil
NilResult == [NoResult EXCEPT !.kind = "nil"]

NoArgs == [After |-> Nil, First |-> Nil]

NoSession ==
  [active |-> FALSE, page |-> 0, prev |-> EmptyMap, exhausted |-> {}, endCursor |-> <<>>]

\* A backend that may give any answer to any call.
FreeBackend == [kind |-> "free", pages |-> EmptyMap, served |-> EmptyMap]

\* A dbCampaign: its ID, the project, the name, the description (nil or a
\* pointer).
Campaign(id, projectID, name, description) ==
  [ID |-> id, ProjectID |-> projectID, Name |-> name, Description |-> description]

\* The tables of the campaigns database, each with its rows.
NoTables == [t \in {"campaigns", "changeset_campaigns"} |-> {}]

\* The campaigns database before any call: its tables are empty, each hands
\* out the IDs from 1 on, and no campaign has been created and kept.
NoDB ==
  [tables |-> NoTables,
   seq |-> [t \in {"campaigns", "changeset_campaigns"} |-> 1],
   created |-> {},
   last |-> [op |-> "none", arg |-> 0, campaign |-> Nil, err |-> NoErr]]

\* No direct use of the codec.
NoCodec ==
  [pc |-> "idle", cursors |-> EmptyMap, after |-> Nil,
   made |-> [cursor |-> <<>>, err |-> NoErr], read |-> [cursors |-> EmptyMap, err |-> NoErr]]

Init ==
  /\ uploads \in UploadLists
  /\ op = "none"
  /\ pc = "idle"
  /\ i = 1
  /\ args = NoArgs
  /\ nextURLs = EmptyMap
  /\ newCursors = EmptyMap
  /\ allLocations = <<>>
  /\ calls = <<>>
  /\ resps = <<>>
  /\ result = NoResult
  /\ session = NoSession
  /\ codec = NoCodec
  /\ ctx = "live"
  /\ backend = FreeBackend
  /\ db = NoDB

\* A backend answer: the locations and next-page token of References, the
\* locations of Definitions, the text and range of Hover, or an error.
Answer(locations, nextURL, text, lspRange, err) ==
  [locations |-> locations, nextURL |-> nextURL, text |-> text, lspRange |-> lspRange,
   err |-> err]

\* What a backend call answers once ctx is cancelled: the client is given ctx
\* and returns its error.
CanceledAnswers == {Answer(<<>>, <<>>, <<>>, "", Canceled)}

\* client.DefaultClient.Definitions(ctx, opts)
DefinitionsAnswers ==
  IF ctx = "canceled" THEN CanceledAnswers
  ELSE {Answer(l, <<>>, <<>>, "", NoErr) : l \in LocationLists}
       \cup {Answer(<<>>, <<>>, <<>>, "", e) : e \in BackendErrs}

\* The longest chain of pages a backend serves for an upload.
MaxChain == 3

\* A backend that serves, for each upload, a fixed chain of pages[u] pages,
\* and the pages it has served so far for each upload.
ChainBackend(pages) ==
  [kind |-> "chain", pages |-> pages, served |-> [u \in DOMAIN pages |-> <<>>]]

\* The token that leads to page p of a chain.
PageToken(p) == <<ChSlash>> \o FormatInt(p)

\* The page a chain backend serves for opts: the first page when the call
\* carries no token, the page the token leads to otherwise.
ChainPage(opts) ==
  IF opts.Cursor = Nil \/ opts.Cursor = Ptr(<<>>) THEN 1
  ELSE CHOOSE p \in 1..MaxChain : PageToken(p) = opts.Cursor[1]

\* The answer of a chain backend: the one location of the page, and the
\* token of the next page unless the page is the last of the chain.
ChainAnswer(b, opts) ==
  With(ChainPage(opts), LAMBDA p :
    Answer(<<<<opts.UploadID, p>>>>,
           IF p < b.pages[opts.UploadID] THEN PageToken(p + 1) ELSE <<>>,
           <<>>, "", NoErr))

\* The backend after it has answered opts: a chain backend has served one
\* more page.
Served(b, opts) ==
  IF b.kind = "free" THEN b
  ELSE [b EXCEPT !.served[opts.UploadID] = Append(@, ChainPage(opts))]

\* client.DefaultClient.References(ctx, opts)
ReferencesAnswers ==
  IF ctx = "canceled" THEN CanceledAnswers
  ELSE IF backend.kind = "chain" THEN {ChainAnswer(backend, calls[Len(calls)])}
  ELSE {Answer(l, t, <<>>, "", NoErr) : l \in ReferenceLists, t \in Tokens \cup {<<>>}}
       \cup {Answer(<<>>, <<>>, <<>>, "", e) : e \in BackendErrs}

\* client.DefaultClient.Hover(ctx, opts)
HoverAnswers ==
  IF ctx = "canceled" THEN CanceledAnswers
  ELSE {Answer(<<>>, <<>>, t, r, NoErr) : t \in HoverTexts, r \in Ranges}
       \cup {Answer(<<>>, <<>>, <<>>, "", e) : e \in BackendErrs}

\* A request starts when none is running.
CanStart == pc \in {"idle", "done"}

\* The state of a request at its first iteration.
Begin(o, a, urls, sess) ==
  /\ op' = o
  /\ pc' = "loop"
  /\ i' = 1
  /\ args' = a
  /\ nextURLs' = urls
  /\ newCursors' = EmptyMap
  /\ allLocations' = <<>>
  /\ calls' = <<>>
  /\ resps' = <<>>
  /\ result' = NoResult
  /\ session' = sess
  /\ ctx' = "live"
  /\ UNCHANGED <<uploads, codec, backend, db>>

\* The caller cancels the request, or its timeout fires, while it runs.
Cancel ==
  /\ pc \in {"loop", "call"}
  /\ ctx = "live"
  /\ ctx' = "canceled"
  /\ UNCHANGED <<uploads, op, pc, i, args, nextURLs, newCursors, allLocations, calls, resps,
                 result, session, codec, backend, db>>

\* The request returns res.
Return(res) ==
  /\ pc' = "done"
  /\ result' = res

(***************************************************************************)
(* Definitions                                                             *)
(***************************************************************************)

\* The opts of a backend call. Repository, commit, path and position are the
\* same in every call of a request and are left out.
Opts(uploadID, limit, cursor) == [UploadID |-> uploadID, Limit |-> limit, Cursor |-> cursor]

StartDefinitions ==
  /\ CanStart
  /\ Begin("Definitions", NoArgs, EmptyMap, NoSession)

\* A faulty DefinitionsCall: the call for the next upload is issued along
\* with the call for uploads[i], before that one has returned.
DefinitionsCallAhead ==
  /\ op = "Definitions" /\ pc = "loop" /\ i <= Len(uploads)
  /\ calls' = IF i < Len(uploads)
               THEN calls \o <<Opts(uploads[i], Nil, Nil), Opts(uploads[i + 1], Nil, Nil)>>
               ELSE Append(calls, Opts(uploads[i], Nil, Nil))
  /\ pc' = "call"
  /\ UNCHANGED <<uploads, op, i, args, nextURLs, newCursors, allLocations, resps, result,
                 session, codec, ctx, backend, db>>

\* The loop reaches the call of the backend for uploads[i].
DefinitionsCall ==
  /\ op = "Definitions" /\ pc = "loop" /\ i <= Len(uploads)
  /\ calls' = Append(calls, Opts(uploads[i], Nil, Nil))
  /\ pc' = "call"
  /\ UNCHANGED <<uploads, op, i, args, nextURLs, newCursors, allLocations, resps, result,
                 session, codec, ctx, backend, db>>

\* A faulty DefinitionsReturn: a failed call is skipped and the loop goes on
\* with the next upload.
DefinitionsReturnSkippingFailures ==
  /\ op = "Definitions" /\ pc = "call"
  /\ \E a \in DefinitionsAnswers :
       /\ resps' = Append(resps, a)
       /\ allLocations' = allLocations \o a.locations
       /\ i' = i + 1
       /\ pc' = "loop"
       /\ UNCHANGED result
  /\ UNCHANGED <<uploads, op, args, nextURLs, newCursors, calls, session, codec, ctx, backend, db>>

\* A faulty DefinitionsReturn: a location already collected is not appended
\* again.
DefinitionsReturnDeduplicating ==
  /\ op = "Definitions" /\ pc = "call"
  /\ \E a \in DefinitionsAnswers :
       /\ resps' = Append(resps, a)
       /\ IF a.err # NoErr
          THEN /\ Return(ErrorResult(a.err))
               /\ UNCHANGED <<i, allLocations>>
          ELSE /\ allLocations' =
                    allLocations \o
                    SelectSeq(a.locations,
                              LAMBDA l : \A k \in 1..Len(allLocations) : allLocations[k] # l)
               /\ i' = i + 1
               /\ pc' = "loop"
               /\ UNCHANGED result
  /\ UNCHANGED <<uploads, op, args, nextURLs, newCursors, calls, session, codec, ctx, backend, db>>

\* The backend answers: an error ends the request, locations are appended.
DefinitionsReturn ==
  /\ op = "Definitions" /\ pc = "call"
  /\ \E a \in DefinitionsAnswers :
       /\ resps' = Append(resps, a)
       /\ IF a.err # NoErr
          THEN /\ Return(ErrorResult(a.err))
               /\ UNCHANGED <<i, allLocations>>
          ELSE /\ allLocations' = allLocations \o a.locations
               /\ i' = i + 1
               /\ pc' = "loop"
               /\ UNCHANGED result
  /\ UNCHANGED <<uploads, op, args, nextURLs, newCursors, calls, session, codec, ctx, backend, db>>

\* After the last upload the locations are returned.
DefinitionsFinish ==
  /\ op = "Definitions" /\ pc = "loop" /\ i > Len(uploads)
  /\ Return(LocationsResult(allLocations, <<>>))
  /\ UNCHANGED <<uploads, op, i, args, nextURLs, newCursors, allLocations, calls, resps,
                 session, codec, ctx, backend, db>>

(***************************************************************************)
(* References                                                              *)
(***************************************************************************)

\* The session a request with cursor after belongs to: a request with no
\* cursor opens one, a request that passes the last page's endCursor back
\* goes on with it, any other cursor belongs to none.
Continues(after) ==
  /\ session.active /\ session.page >= 1
  /\ session.endCursor # <<>>
  /\ after = Ptr(session.endCursor)

SessionOf(after) ==
  IF after = Nil THEN [NoSession EXCEPT !.active = TRUE]
  ELSE IF Continues(after) THEN session
  ELSE NoSession

\* The cursors a caller may pass: none, the endCursor of the last page of
\* its session, or one of its own making.
Afters ==
  {Nil}
  \cup {Ptr(c) : c \in ClientCursors}
  \cup (IF session.active /\ session.page >= 1 /\ session.page < MaxPages
           /\ session.endCursor # <<>>
        THEN {Ptr(session.endCursor)} ELSE {})

\* A faulty ReferencesOpts: the limit is halved.
ReferencesOptsHalvedLimit(uploadID, first, urls) ==
  Opts(uploadID,
       IF first # Nil THEN Ptr(first[1] \div 2) ELSE Nil,
       IF uploadID \in DOMAIN urls THEN Ptr(urls[uploadID]) ELSE Nil)

\* A faulty ReferencesOpts: the cursor is some entry of the incoming map, not
\* the entry of the upload.
ReferencesOptsAnyEntry(uploadID, first, urls) ==
  Opts(uploadID,
       IF first # Nil THEN first ELSE Nil,
       IF DOMAIN urls # {} THEN Ptr(urls[CHOOSE x \in DOMAIN urls : TRUE]) ELSE Nil)

\* The opts of the References call for an upload: the limit when args.First
\* is given, the upload's entry of the incoming cursor when it has one.
ReferencesOpts(uploadID, first, urls) ==
  Opts(uploadID,
       IF first # Nil THEN first ELSE Nil,
       IF uploadID \in DOMAIN urls THEN Ptr(urls[uploadID]) ELSE Nil)

\* A faulty UpdateCursors: the token is kept also when it is empty.
UpdateCursorsAlways(cursors, uploadID, nextURL) == (uploadID :> nextURL) @@ cursors

\* A faulty UpdateCursors: the entries of the incoming cursor are carried
\* over into the outgoing one.
UpdateCursorsCopyingIncoming(cursors, uploadID, nextURL) ==
  (IF nextURL # <<>> THEN (uploadID :> nextURL) ELSE EmptyMap) @@ cursors @@ nextURLs

\* newCursors after an upload's answer: its token is kept when not empty.
UpdateCursors(cursors, uploadID, nextURL) ==
  IF nextURL # <<>>
  THEN [x \in (DOMAIN cursors) \cup {uploadID} |->
          IF x = uploadID THEN nextURL ELSE cursors[x]]
  ELSE cursors

\* A faulty StartReferences: a cursor that fails to decode is treated as no
\* cursor and the uploads are queried.
StartReferencesIgnoringDecodeError ==
  /\ CanStart
  /\ \E after \in Afters, first \in Firsts :
       \E r \in {readCursor(after)} :
         Begin("References", [After |-> after, First |-> first],
               IF r.err # NoErr THEN EmptyMap ELSE r.cursors, SessionOf(after))

\* References(args) up to its loop: the cursor is decoded first; a failure
\* ends the request.
ReferencesRequest(after, first) ==
  \E r \in {readCursor(after)} :
    IF r.err # NoErr
    THEN /\ op' = "References"
         /\ args' = [After |-> after, First |-> first]
         /\ Return(ErrorResult(r.err))
         /\ i' = 1
         /\ nextURLs' = EmptyMap
         /\ newCursors' = EmptyMap
         /\ allLocations' = <<>>
         /\ calls' = <<>>
         /\ resps' = <<>>
         /\ session' = SessionOf(after)
         /\ ctx' = "live"
         /\ UNCHANGED <<uploads, codec, backend, db>>
    ELSE Begin("References", [After |-> after, First |-> first], r.cursors,
               SessionOf(after))

\* A References request with any cursor a caller may pass.
StartReferences ==
  /\ CanStart
  /\ \E after \in Afters, first \in Firsts : ReferencesRequest(after, first)

\* The loop reaches the call of the backend for uploads[i].
ReferencesCall ==
  /\ op = "References" /\ pc = "loop" /\ i <= Len(uploads)
  /\ calls' = Append(calls, ReferencesOpts(uploads[i], args.First, nextURLs))
  /\ pc' = "call"
  /\ UNCHANGED <<uploads, op, i, args, nextURLs, newCursors, allLocations, resps, result,
                 session, codec, ctx, backend, db>>

\* A faulty ReferencesReturn: a failed call is skipped and the loop goes on.
ReferencesReturnSkippingFailures ==
  /\ op = "References" /\ pc = "call"
  /\ \E a \in ReferencesAnswers :
       /\ resps' = Append(resps, a)
       /\ allLocations' = allLocations \o a.locations
       /\ newCursors' = IF a.err # NoErr THEN newCursors
                        ELSE UpdateCursors(newCursors, uploads[i], a.nextURL)
       /\ i' = i + 1
       /\ pc' = "loop"
       /\ UNCHANGED result
  /\ backend' = Served(backend, calls[Len(calls)])
  /\ UNCHANGED <<uploads, op, args, nextURLs, calls, session, codec, ctx, db>>

\* The backend answers: an error ends the request; otherwise the locations
\* are appended and the next-page token recorded.
ReferencesReturn ==
  /\ op = "References" /\ pc = "call"
  /\ \E a \in ReferencesAnswers :
       /\ resps' = Append(resps, a)
       /\ IF a.err # NoErr
          THEN /\ Return(ErrorResult(a.err))
               /\ UNCHANGED <<i, allLocations, newCursors>>
          ELSE /\ allLocations' = allLocations \o a.locations
               /\ newCursors' = UpdateCursors(newCursors, uploads[i], a.nextURL)
               /\ i' = i + 1
               /\ pc' = "loop"
               /\ UNCHANGED result
  /\ backend' = Served(backend, calls[Len(calls)])
  /\ UNCHANGED <<uploads, op, args, nextURLs, calls, session, codec, ctx, db>>

\* The tokens the backends returned on this request, by upload.
ReturnedTokens ==
  [u \in {uploads[k] : k \in {k \in 1..Len(resps) : resps[k].nextURL # <<>>}} |->
     resps[CHOOSE k \in 1..Len(resps) : uploads[k] = u].nextURL]

\* After the last upload the outgoing cursor is encoded and the page
\* returned. The caller's session then holds this page.
ReferencesFinish ==
  /\ op = "References" /\ pc = "loop" /\ i > Len(uploads)
  /\ \E c \in {makeCursor(newCursors)} :
        /\ IF c.err # NoErr
           THEN Return(ErrorResult(c.err))
           ELSE Return(LocationsResult(allLocations, c.cursor))
        /\ session' =
             IF session.active /\ c.err = NoErr
             THEN [active |-> TRUE,
                   page |-> session.page + 1,
                   prev |-> ReturnedTokens,
                   exhausted |-> session.exhausted \cup
                     {uploads[k] : k \in {k \in 1..Len(resps) : resps[k].nextURL = <<>>}},
                   endCursor |-> c.cursor]
             ELSE session
  /\ UNCHANGED <<uploads, op, i, args, nextURLs, newCursors, allLocations, calls, resps,
                 codec, ctx, backend, db>>

(***************************************************************************)
(* Hover                                                                   *)
(***************************************************************************)

StartHover ==
  /\ CanStart
  /\ Begin("Hover", NoArgs, EmptyMap, NoSession)

\* The loop reaches the call of the backend for uploads[i].
HoverCall ==
  /\ op = "Hover" /\ pc = "loop" /\ i <= Len(uploads)
  /\ calls' = Append(calls, Opts(uploads[i], Nil, Nil))
  /\ pc' = "call"
  /\ UNCHANGED <<uploads, op, i, args, nextURLs, newCursors, allLocations, resps, result,
                 session, codec, ctx, backend, db>>

\* A faulty HoverReturn: the first answer is returned, empty text or not.
HoverReturnAnyText ==
  /\ op = "Hover" /\ pc = "call"
  /\ \E a \in HoverAnswers :
       /\ resps' = Append(resps, a)
       /\ IF a.err # NoErr
          THEN Return(ErrorResult(a.err))
          ELSE Return(HoverResult(a.text, a.lspRange))
       /\ UNCHANGED i
  /\ UNCHANGED <<uploads, op, args, nextURLs, newCursors, allLocations, calls, session,
                 codec, ctx, backend, db>>

\* The backend answers: an error ends the request, a text that is not empty
\* is returned with its range, an empty text leads to the next upload.
HoverReturn ==
  /\ op = "Hover" /\ pc = "call"
  /\ \E a \in HoverAnswers :
       /\ resps' = Append(resps, a)
       /\ IF a.err # NoErr
          THEN /\ Return(ErrorResult(a.err))
               /\ UNCHANGED i
          ELSE IF a.text # <<>>
          THEN /\ Return(HoverResult(a.text, a.lspRange))
               /\ UNCHANGED i
          ELSE /\ i' = i + 1
               /\ pc' = "loop"
               /\ UNCHANGED result
  /\ UNCHANGED <<uploads, op, args, nextURLs, newCursors, allLocations, calls, session,
                 codec, ctx, backend, db>>

\* After the last upload: no hover text, and no error.
HoverFinish ==
  /\ op = "Hover" /\ pc = "loop" /\ i > Len(uploads)
  /\ Return(NilResult)
  /\ UNCHANGED <<uploads, op, i, args, nextURLs, newCursors, allLocations, calls, resps,
                 session, codec, ctx, backend, db>>

Next ==
  \/ StartDefinitions
  \/ DefinitionsCall
  \/ DefinitionsReturn
  \/ DefinitionsFinish
  \/ StartReferences
  \/ ReferencesCall
  \/ ReferencesReturn
  \/ ReferencesFinish
  \/ StartHover
  \/ HoverCall
  \/ HoverReturn
  \/ HoverFinish
  \/ Cancel

Spec == Init /\ [][Next]_vars

(***************************************************************************)
(* The cursor codec used directly                                          *)
(***************************************************************************)

\* Bound of the cursor maps drawn: the number of entries.
MaxEntries == 2

\* The tokens of the cursor maps drawn: the backend's, and one with a quote,
\* a backslash, "<", a line feed and a two-byte character ("e" acute).
CursorTokens == Tokens \cup {<<34, 92, 60, 10, 195, 169>>}

\* The cursor maps drawn: up to MaxEntries upload IDs, each with a token.
CursorMaps ==
  UNION {[ks -> CursorTokens] : ks \in {k \in SUBSET UploadIDs : Cardinality(k) <= MaxEntries}}

\* JSON texts that are no object of strings: null, a list, a number, an
\* object with a number as value, with null as value, with a name that is no
\* integer, with a string and then a number, and an object cut short.
PayloadNull == LitNull
PayloadList == Str(<<"[", "1", ",", "2", "]">>)
PayloadNumber == Str(<<"5">>)
PayloadNumberValue == Str(<<"{", "\"", "1", "\"", ":", "5", "}">>)
PayloadNullValue == Str(<<"{", "\"", "1", "\"", ":">>) \o LitNull \o Str(<<"}">>)
PayloadBadName == Str(<<"{", "\"", "x", "\"", ":", "\"", "a", "\"", "}">>)
PayloadStringThenNumber ==
  Str(<<"{", "\"", "1", "\"", ":", "\"", "a", "\"", ",", "\"", "2", "\"", ":", "5", "}">>)
PayloadCutShort == Str(<<"{", "\"", "1", "\"", ":">>)

\* Text that is not base64: a character outside the alphabet, a length that
\* is no multiple of 4.
NotBase64 == {Str(<<"!", "!", "!", "!">>), Str(<<"a", "b", "c">>)}

\* Strings makeCursor does not produce: text that is not base64, and the
\* base64 text of the payloads above.
MalformedCursors ==
  NotBase64
  \cup {EncodeToString(p) : p \in {PayloadNull, PayloadList, PayloadNumber, PayloadNumberValue,
                                    PayloadNullValue, PayloadBadName,
                                    PayloadStringThenNumber, PayloadCutShort}}

\* The after arguments drawn for readCursor: nil, the empty string, the
\* malformed cursors, and the cursors a client may send.
ClientAfters ==
  {Nil, Ptr(<<>>)} \cup {Ptr(c) : c \in MalformedCursors \cup ClientCursors}

\* The inputs are drawn; the resolver is at rest.
InitCodec ==
  /\ uploads = <<>>
  /\ op = "none"
  /\ pc = "idle"
  /\ i = 1
  /\ args = NoArgs
  /\ nextURLs = EmptyMap
  /\ newCursors = EmptyMap
  /\ allLocations = <<>>
  /\ calls = <<>>
  /\ resps = <<>>
  /\ result = NoResult
  /\ session = NoSession
  /\ ctx = "live"
  /\ backend = FreeBackend
  /\ db = NoDB
  /\ \E m \in CursorMaps, a \in ClientAfters :
       codec = [NoCodec EXCEPT !.cursors = m, !.after = a]

resolverVars ==
  <<uploads, op, pc, i, args, nextURLs, newCursors, allLocations, calls, resps, result,
    session, ctx, backend, db>>

\* makeCursor(codec.cursors)
CodecMake ==
  /\ codec.pc = "idle"
  /\ codec' = [codec EXCEPT !.pc = "made", !.made = makeCursor(codec.cursors)]
  /\ UNCHANGED resolverVars

\* readCursor of a pointer to the string makeCursor returned.
CodecReadBack ==
  /\ codec.pc = "made"
  /\ codec' = [codec EXCEPT !.pc = "readback", !.read = readCursor(Ptr(codec.made.cursor))]
  /\ UNCHANGED resolverVars

\* readCursor(codec.after)
CodecRead ==
  /\ codec.pc = "idle"
  /\ codec' = [codec EXCEPT !.pc = "read", !.read = readCursor(codec.after)]
  /\ UNCHANGED resolverVars

NextCodec ==
  \/ CodecMake
  \/ CodecReadBack
  \/ CodecRead

SpecCodec == InitCodec /\ [][NextCodec]_vars

(***************************************************************************)
(* A References pagination session over chain backends                     *)
(***************************************************************************)

\* The product of the numbers 1..n, a multiple of every chain length up to n.
RECURSIVE Product(_)
Product(n) == IF n <= 1 THEN 1 ELSE n * Product(n - 1)

\* The number of requests of a session that are followed: no session over
\* chains of at most MaxChain pages needs more when each request moves
\* every chain.
MaxRequests == Product(MaxChain)

\* Every candidate upload has a backend serving a chain of pages, and the
\* caller has made no request.
InitChain ==
  /\ uploads \in UploadLists
  /\ op = "none"
  /\ pc = "idle"
  /\ i = 1
  /\ args = NoArgs
  /\ nextURLs = EmptyMap
  /\ newCursors = EmptyMap
  /\ allLocations = <<>>
  /\ calls = <<>>
  /\ resps = <<>>
  /\ result = NoResult
  /\ session = NoSession
  /\ codec = NoCodec
  /\ ctx = "live"
  /\ backend \in {ChainBackend(pages) :
                    pages \in [{uploads[k] : k \in 1..Len(uploads)} -> 1..MaxChain]}
  /\ db = NoDB

\* The cursors the caller of a session passes: none on the first request,
\* then the endCursor of the last page until that is empty.
SessionAfters ==
  IF ~session.active THEN {Nil}
  ELSE IF session.endCursor # <<>> /\ session.page < MaxRequests
       THEN {Ptr(session.endCursor)}
       ELSE {}

\* The next request of the session.
SessionRequest ==
  /\ CanStart
  /\ \E after \in SessionAfters, first \in Firsts : ReferencesRequest(after, first)

NextChain ==
  \/ SessionRequest
  \/ ReferencesCall
  \/ ReferencesReturn
  \/ ReferencesFinish

SpecChain == InitChain /\ [][NextChain]_vars

\* The caller keeps asking and the backends keep answering.
SpecChainFair == SpecChain /\ WF_vars(NextChain)

(***************************************************************************)
(* The campaigns store (campaigns_db.go)                                   *)
(***************************************************************************)

\* The number of campaigns Create is called for.
MaxCampaigns == 2

errCampaignNotFound == "campaign not found"

\* The errors the database connection may return for a statement.
DBErrs == {"pq: error"}

ProjectIDs == {1, 2}
CampaignNames == {Str(<<"a">>), Str(<<"b">>)}
Descriptions == {Nil, Ptr(Str(<<"d">>))}

\* The campaigns a caller passes to Create; Create ignores the ID.
NewCampaigns ==
  {Campaign(0, p, n, d) : p \in ProjectIDs, n \in CampaignNames, d \in Descriptions}

\* The IDs a caller asks for: those the database has handed out, and one more.
CampaignIDs == 1..(MaxCampaigns + 1)

\* The table named by the INSERT statement of Create.
CreateTable == "changeset_campaigns"

\* The table named by the SELECT statement of list, which GetByID and List
\* run.
ListTable == "campaigns"

\* The table named by the DELETE statement of delete, which DeleteByID runs.
DeleteTable == "campaigns"

\* The rows of table t with the given id: the condition id=%d.
RowsByID(t, id) == {r \in db.tables[t] : r.ID = id}

\* The first row of rows under ORDER BY name ASC.
FirstByName(rows) == {r \in rows : \A q \in rows : ~StrLess(q.Name, r.Name)}

\* The store after a call op with argument a that returned campaign c (nil
\* or a pointer) and error e.
Returned(d, o, a, c, e) == [d EXCEPT !.last = [op |-> o, arg |-> a, campaign |-> c, err |-> e]]

\* Create(campaign): the INSERT statement either fails in the database, and
\* Create returns that error, or inserts a row into the table it names and
\* returns the row's new ID, and Create returns the campaign with that ID.
CampaignsCreate ==
  /\ db.seq[CreateTable] <= MaxCampaigns
  /\ \E c \in NewCampaigns :
       \/ \E e \in DBErrs : db' = Returned(db, "Create", c, Nil, e)
       \/ \E id \in {db.seq[CreateTable]} :
            \E created \in {[c EXCEPT !.ID = id]} :
              db' = Returned([db EXCEPT !.tables[CreateTable] = @ \cup {created},
                                        !.seq[CreateTable] = id + 1,
                                        !.created = @ \cup {created}],
                             "Create", c, Ptr(created), NoErr)
  /\ UNCHANGED <<uploads, op, pc, i, args, nextURLs, newCursors, allLocations, calls, resps,
                 result, session, codec, ctx, backend>>

\* GetByID(id): list with the condition id=%d; a database error is
\* returned, no row is errCampaignNotFound, otherwise the first row.
CampaignsGetByID ==
  /\ \E id \in CampaignIDs :
       \/ \E e \in DBErrs : db' = Returned(db, "GetByID", id, Nil, e)
       \/ \E results \in {RowsByID(ListTable, id)} :
            IF results = {}
              THEN db' = Returned(db, "GetByID", id, Nil, errCampaignNotFound)
              ELSE \E r \in FirstByName(results) :
                     db' = Returned(db, "GetByID", id, Ptr(r), NoErr)
  /\ UNCHANGED <<uploads, op, pc, i, args, nextURLs, newCursors, allLocations, calls, resps,
                 result, session, codec, ctx, backend>>

\* DeleteByID(id): delete with the condition id=%d; a database error is
\* returned, no row affected is errCampaignNotFound.
CampaignsDeleteByID ==
  /\ \E id \in CampaignIDs :
       \/ \E e \in DBErrs : db' = Returned(db, "DeleteByID", id, Nil, e)
       \/ \E affected \in {RowsByID(DeleteTable, id)} :
            IF affected = {}
              THEN db' = Returned(db, "DeleteByID", id, Nil, errCampaignNotFound)
              ELSE db' = Returned([db EXCEPT !.tables[DeleteTable] = @ \ affected,
                                             !.created = {c \in @ : c.ID # id}],
                                  "DeleteByID", id, Nil, NoErr)
  /\ UNCHANGED <<uploads, op, pc, i, args, nextURLs, newCursors, allLocations, calls, resps,
                 result, session, codec, ctx, backend>>

NextCampaigns ==
  \/ CampaignsCreate
  \/ CampaignsGetByID
  \/ CampaignsDeleteByID

SpecCampaigns == Init /\ [][NextCampaigns]_vars

(***************************************************************************)
(* Properties                                                              *)
(***************************************************************************)

\* A later page of a pagination session is being served: the request passed
\* the last page's endCursor back and has not returned.
InSession ==
  op = "References" /\ pc \in {"loop", "call"} /\ session.active /\ session.page >= 1

\* The uploads queried so far by the request.
Called == {calls[k].UploadID : k \in 1..Len(calls)}

\* The location lists of the answers rs from the k-th on, one after another.
RECURSIVE ConcatLocations(_, _)
ConcatLocations(rs, k) ==
  IF k > Len(rs) THEN <<>> ELSE rs[k].locations \o ConcatLocations(rs, k + 1)

\* C1: on a later page of a pagination session, no upload is queried whose
\* backend returned an empty next-page token on an earlier page of the
\* session.
C1_ExhaustedNotRequeried ==
  InSession => Called \cap session.exhausted = {}

\* C2: on a later page of a pagination session every upload that returned a
\* token on the page before is queried, each call carries exactly the token
\* its own upload returned on the page before, and an upload with no entry in
\* the decoded incoming cursor is called with no cursor.
C2_TokenOfItsOwnUpload ==
  /\ op = "References" =>
       \A k \in 1..Len(calls) :
         calls[k].UploadID \notin DOMAIN nextURLs => calls[k].Cursor = Nil
  /\ InSession =>
       /\ \A k \in 1..Len(calls) :
            calls[k].Cursor =
              IF calls[k].UploadID \in DOMAIN session.prev
              THEN Ptr(session.prev[calls[k].UploadID])
              ELSE Nil
       /\ i > Len(uploads) => DOMAIN session.prev \subseteq Called

\* A second page has queried two uploads, each with its own token of the
\* first page, the two tokens differing.
C2_Witness ==
  /\ InSession /\ i > Len(uploads) /\ Len(uploads) = 2
  /\ DOMAIN session.prev = {uploads[1], uploads[2]}
  /\ session.prev[uploads[1]] # session.prev[uploads[2]]
  /\ calls[1].Cursor = Ptr(session.prev[uploads[1]])
  /\ calls[2].Cursor = Ptr(session.prev[uploads[2]])

\* C3: a References request that succeeded returns an endCursor whose map
\* holds exactly the uploads whose call returned a token that is not empty,
\* each with that token; the endCursor is empty exactly when every call
\* returned the empty token.
C3_EndCursorHoldsReturnedTokens ==
  (op = "References" /\ pc = "done" /\ result.kind = "locations") =>
    /\ newCursors = ReturnedTokens
    /\ (result.endCursor = <<>>) <=> (\A k \in 1..Len(resps) : resps[k].nextURL = <<>>)
    /\ result.endCursor # <<>> =>
         readCursor(Ptr(result.endCursor)) = [cursors |-> ReturnedTokens, err |-> NoErr]

\* A page of two uploads, the first with a token and the second without.
C3_Witness ==
  /\ op = "References" /\ pc = "done" /\ result.kind = "locations"
  /\ Len(resps) = 2 /\ resps[1].nextURL # <<>> /\ resps[2].nextURL = <<>>
  /\ result.endCursor # <<>>

\* C4: a failed backend call of a References request is its last call, and
\* the request returns that call's error with no locations and no endCursor.
C4_ReferencesFailFast ==
  op = "References" =>
    \A k \in 1..Len(resps) :
      resps[k].err # NoErr =>
        /\ k = Len(resps) /\ Len(calls) = k
        /\ pc = "done"
        /\ result = ErrorResult(resps[k].err)

\* The second upload's call failed after the first returned locations.
C4_Witness ==
  /\ op = "References" /\ pc = "done" /\ Len(uploads) = 2 /\ Len(resps) = 2
  /\ resps[1].err = NoErr /\ resps[1].locations # <<>>
  /\ resps[2].err # NoErr
  /\ result.kind = "error" /\ result.err = resps[2].err /\ result.locations = <<>>

\* C5: reading back the cursor made from a map succeeds and gives the same
\* map, for every map, the empty one included.
C5_RoundTrip ==
  codec.pc = "readback" => codec.read = [cursors |-> codec.cursors, err |-> NoErr]

\* C6: readCursor of nil and of a pointer to the empty string both give the
\* empty map and no error.
C6_EmptyDecodesToEmptyMap ==
  (codec.pc = "read" /\ codec.after \in {Nil, Ptr(<<>>)}) =>
    codec.read = [cursors |-> EmptyMap, err |-> NoErr]

\* C7: makeCursor does not fail, and returns the empty string exactly for
\* the map with no entries.
C7_EmptyStringIffEmptyMap ==
  codec.pc \in {"made", "readback"} =>
    /\ codec.made.err = NoErr
    /\ (codec.made.cursor = <<>>) <=> (DOMAIN codec.cursors = {})

\* makeCursor has returned a cursor that is not empty for a map of two
\* entries.
C7_Witness ==
  /\ codec.pc = "made" /\ Cardinality(DOMAIN codec.cursors) = 2
  /\ codec.made.cursor # <<>>

\* C8: readCursor of a string that makeCursor does not produce (text that is
\* not base64, or base64 of JSON that is no object of strings) fails and
\* returns no map.
C8_MalformedFails ==
  (codec.pc = "read" /\ codec.after # Nil /\ codec.after[1] \in MalformedCursors) =>
    /\ codec.read.err # NoErr
    /\ codec.read.cursors = EmptyMap

\* C9: a Definitions request that succeeded has queried every upload in
\* candidate order and returns the location lists of the answers one after
\* another, nothing dropped, reordered or deduplicated.
C9_DefinitionsConcatenation ==
  (op = "Definitions" /\ pc = "done" /\ result.kind = "locations") =>
    /\ Len(calls) = Len(uploads)
    /\ \A k \in 1..Len(calls) : calls[k].UploadID = uploads[k]
    /\ result.locations = ConcatLocations(resps, 1)
    /\ result.err = NoErr

\* Two uploads reported the same location: it is returned twice.
C9_Witness ==
  /\ op = "Definitions" /\ pc = "done" /\ Len(uploads) = 2
  /\ resps[1].locations = <<"L2", "L1">> /\ resps[2].locations = <<"L1">>
  /\ result.locations = <<"L2", "L1", "L1">>

\* C10: Hover queries the uploads in candidate order; an answer with text is
\* the last call and is returned with its range; the result is "no hover"
\* without error exactly when every upload answered with empty text.
C10_HoverFirstText ==
  op = "Hover" =>
    /\ \A k \in 1..Len(calls) : calls[k].UploadID = uploads[k]
    /\ \A k \in 1..Len(resps) :
         resps[k].text # <<>> =>
           /\ k = Len(resps) /\ Len(calls) = k
           /\ pc = "done"
           /\ result = HoverResult(resps[k].text, resps[k].lspRange)
    /\ (pc = "done" /\ result.kind = "hover") =>
         Len(resps) >= 1 /\ resps[Len(resps)].text # <<>>
    /\ pc = "done" =>
         /\ (result = NilResult) <=>
              /\ Len(resps) = Len(uploads)
              /\ \A k \in 1..Len(resps) : resps[k].err = NoErr /\ resps[k].text = <<>>
         /\ result.kind = "nil" => result = NilResult

\* The first upload answered with empty text, the second with a text, which
\* is returned.
C10_Witness ==
  /\ op = "Hover" /\ pc = "done" /\ Len(uploads) = 2 /\ Len(resps) = 2
  /\ resps[1].err = NoErr /\ resps[1].text = <<>>
  /\ resps[2].text # <<>>
  /\ result = HoverResult(resps[2].text, resps[2].lspRange)

\* C11: a failed backend call of a Definitions or Hover request is its last
\* call, and the request returns that call's error with no locations and no
\* hover text.
C11_DefinitionsHoverFailFast ==
  op \in {"Definitions", "Hover"} =>
    \A k \in 1..Len(resps) :
      resps[k].err # NoErr =>
        /\ k = Len(resps) /\ Len(calls) = k
        /\ pc = "done"
        /\ result = ErrorResult(resps[k].err)

\* The second upload's call of a Definitions request failed after the first
\* returned locations.
C11_Witness ==
  /\ op = "Definitions" /\ pc = "done" /\ Len(uploads) = 2 /\ Len(resps) = 2
  /\ resps[1].err = NoErr /\ resps[1].locations # <<>>
  /\ resps[2].err # NoErr
  /\ result = ErrorResult(resps[2].err)

\* C12: every backend call of a References request carries the request's
\* limit as given, and no limit when none was given.
C12_LimitPassedUnchanged ==
  op = "References" =>
    \A k \in 1..Len(calls) : calls[k].Limit = args.First

\* A request with limit 2 over two uploads, each called with limit 2, has
\* returned four locations.
C12_Witness ==
  /\ op = "References" /\ pc = "done" /\ result.kind = "locations"
  /\ args.First = Ptr(2) /\ Len(calls) = 2
  /\ calls[1].Limit = Ptr(2) /\ calls[2].Limit = Ptr(2)
  /\ Len(result.locations) = 4

\* C13: a request whose context was cancelled while it ran returns the
\* cancellation error and nothing else.
C13_CancelledRequestFails ==
  (pc = "done" /\ ctx = "canceled") => result = ErrorResult(Canceled)

\* C14: when GetByID is called with the ID of a campaign that Create
\* returned (and that was not deleted since) and the database reports no
\* error of its own, GetByID returns a campaign with the ProjectID, the Name
\* and the Description that were given to Create.
C14_CreatedCampaignIsRetrieved ==
  (db.last.op = "GetByID" /\ db.last.err \notin DBErrs) =>
    \A c \in db.created :
      c.ID = db.last.arg =>
        /\ db.last.err = NoErr
        /\ db.last.campaign # Nil
        /\ db.last.campaign[1].ProjectID = c.ProjectID
        /\ db.last.campaign[1].Name = c.Name
        /\ db.last.campaign[1].Description = c.Description

\* C15: the backend calls of a request are issued one at a time in the order
\* of the candidate uploads: the k-th call is for the k-th upload and is
\* issued only after every earlier call has returned without error, one call
\* is in flight while the request waits for the backend and none otherwise,
\* so no upload is queried twice in a request.
C15_OneCallAtATime ==
  /\ Len(calls) <= Len(uploads)
  /\ Len(calls) - Len(resps) = (IF pc = "call" THEN 1 ELSE 0)
  /\ \A k \in 1..Len(calls) :
       /\ calls[k].UploadID = uploads[k]
       /\ k > 1 => resps[k - 1].err = NoErr
  /\ \A j, k \in 1..Len(calls) : j # k => calls[j].UploadID # calls[k].UploadID

\* C15 witness: the call for the second upload is in flight, after the call
\* for the first has returned.
C15_Witness ==
  /\ pc = "call" /\ Len(uploads) = 2
  /\ Len(calls) = 2 /\ Len(resps) = 1
  /\ calls[1].UploadID = uploads[1] /\ calls[2].UploadID = uploads[2]

\* The IDs of the candidate uploads of the request.
Candidates == {uploads[k] : k \in 1..Len(uploads)}

\* C16: in a References request the keys of the outgoing cursor map are IDs
\* of candidate uploads, the endCursor of the page encodes that map and
\* decodes to a map with those keys, and the cursor forwarded to a backend
\* is the incoming entry of the candidate upload the call is for (none when
\* it has no entry): an incoming entry of an upload that is no candidate is
\* neither forwarded nor copied.
C16_CursorKeysAreCandidates ==
  op = "References" =>
    /\ DOMAIN newCursors \subseteq Candidates
    /\ \A k \in 1..Len(calls) :
         /\ calls[k].UploadID \in Candidates
         /\ calls[k].Cursor =
              IF calls[k].UploadID \in DOMAIN nextURLs
              THEN Ptr(nextURLs[calls[k].UploadID]) ELSE Nil
    /\ (pc = "done" /\ result.kind = "locations") =>
         /\ result.endCursor = makeCursor(newCursors).cursor
         /\ result.endCursor # <<>> =>
              DOMAIN readCursor(Ptr(result.endCursor)).cursors \subseteq Candidates

\* C16 witness: the incoming cursor has an entry for an upload that is no
\* candidate, every candidate was queried without a cursor, and the page
\* has an endCursor.
C16_Witness ==
  /\ op = "References" /\ pc = "done" /\ result.kind = "locations"
  /\ DOMAIN nextURLs \ Candidates # {}
  /\ Len(calls) = 2 /\ calls[1].Cursor = Nil /\ calls[2].Cursor = Nil
  /\ result.endCursor # <<>>
  /\ DOMAIN readCursor(Ptr(result.endCursor)).cursors = Candidates

\* C17: in a References request the incoming cursor is decoded before any
\* backend call: when it fails to decode, the request has returned the
\* decode error, no page, and no backend call was issued; when it decodes,
\* the calls are made with the decoded map.
C17_DecodeBeforeBackend ==
  op = "References" =>
    IF readCursor(args.After).err # NoErr
    THEN /\ pc = "done"
         /\ result = ErrorResult(readCursor(args.After).err)
         /\ calls = <<>> /\ resps = <<>>
    ELSE nextURLs = readCursor(args.After).cursors

\* C17 witness: a request over two candidate uploads whose cursor is not
\* base64 has returned the decode error without a call.
C17_Witness ==
  /\ op = "References" /\ pc = "done" /\ Len(uploads) = 2
  /\ args.After = Ptr(Str(<<"!", "!", "!", "!">>))
  /\ result = ErrorResult(CorruptInputError)
  /\ calls = <<>>

\* The session over chain backends is complete: the last request returned a
\* page with an empty endCursor.
SessionComplete ==
  /\ backend.kind = "chain" /\ session.active
  /\ op = "References" /\ pc = "done"
  /\ result.kind = "locations" /\ result.endCursor = <<>>

\* C18: in a References session over chain backends no page of an upload is
\* served twice, each merged page holds the locations of the pages served
\* for it, and when the session is complete every upload's backend has
\* served its pages 1..n once each, in order.
C18_EachPageDeliveredOnce ==
  backend.kind = "chain" =>
    /\ \A u \in DOMAIN backend.served :
         \A j, k \in 1..Len(backend.served[u]) :
           j # k => backend.served[u][j] # backend.served[u][k]
    /\ (pc = "done" /\ result.kind = "locations") =>
         result.locations = ConcatLocations(resps, 1)
    /\ SessionComplete =>
         \A u \in DOMAIN backend.served :
           backend.served[u] = [p \in 1..backend.pages[u] |-> p]

\* C19: a References session over chain backends whose caller keeps passing
\* the endCursor back reaches a page with an empty endCursor.
C19_SessionTerminates == <>SessionComplete

\* C19 witness: a session is complete after more requests than the longest
\* chain has pages.
C19_Witness == SessionComplete /\ session.page > MaxChain

====
